---- MODULE Spec2Model ----
(***************************************************************************)
(* Model of pyosim's AnalyzeTool (src/pyosim/analyse_tool.py): the         *)
(* constructor, the batch loop, run_analyze_tool with its engine calls,    *)
(* temp file, analysis attach/detach and post-processing, and the XML      *)
(* parameter extractor.  File names and XML texts are sequences of         *)
(* one-character strings so that stem, startswith, `in` and split are      *)
(* computed, not assumed.                                                  *)
(***************************************************************************)
EXTENDS Integers, Sequences, FiniteSets, TLC

VARIABLES
    args,        \* the constructor's arguments
    pc,          \* the constructor: "new", "loop", "done" or "raised"
    raised,      \* the exception that left the constructor, or "none"
    start_time,  \* self.start_time: <<>> is None, <<v>> is the value v
    end_time,    \* self.end_time
    task,        \* per trial: position of its run_analyze_tool call
    log,         \* engine calls made so far, as <<trial index, call>>
    eff,         \* per trial: the times given to the analysis and the tool
    visits,      \* per trial: calls of run_analyze_tool, and those not skipped
    cwd,         \* temp files in the working directory: name -> trial that wrote it
    analyses,    \* analysis list of the pre-loaded (shared) model
    outdir,      \* the output directory: file name -> size in bytes
    ncalls,      \* constructions of the tool so far
    last,        \* the last step and the directory its substring filter saw
    parse        \* parse_analyze_set_xml: the node's children and the result

vars == <<args, pc, raised, start_time, end_time, task, log, eff, visits,
          cwd, analyses, outdir, ncalls, last, parse>>

----------------------------------------------------------------------------
(* Bounds *)
MaxTrials == 2
MaxRangeLen == 3
MaxCalls == 2
MaxTextLen == 3
MaxChildren == 2

----------------------------------------------------------------------------
(* Strings *)
None == <<>>
Some(v) == <<v>>

s_wu == <<"w", "u">>
s_walk == <<"w", "a", "l", "k">>
s_sto == <<"s", "t", "o">>
n_wu_walk01_mot == <<"w","u","_","w","a","l","k","0","1",".","m","o","t">>
n_ta_walk01_mot == <<"t","a","_","w","a","l","k","0","1",".","m","o","t">>
n_run01_so_sto == <<"r","u","n","0","1","_","s","o",".","s","t","o">>
n_walk01_so_sto == <<"w","a","l","k","0","1","_","s","o",".","s","t","o">>
n_log_sto == <<"l","o","g",".","s","t","o">>
n_sto_txt == <<"s","t","o",".","t","x","t">>
sfx_temp_xml == <<"_","t","e","m","p",".","x","m","l">>
sfx_sto == <<".","s","t","o">>

\* str.startswith
StartsWith(s, p) == Len(p) <= Len(s) /\ SubSeq(s, 1, Len(p)) = p

\* `sub in s` for strings
Contains(sub, s) ==
    \E i \in 0..(Len(s) - Len(sub)) : SubSeq(s, i + 1, i + Len(sub)) = sub

\* str.rfind("."), 0-based, -1 when there is none
RFindDot(name) ==
    LET at == {i \in 1..Len(name) : name[i] = "."}
    IN IF at = {} THEN -1 ELSE (CHOOSE i \in at : \A j \in at : j <= i) - 1

\* pathlib's PurePath.stem of a file name
Stem(name) ==
    LET i == RFindDot(name)
    IN IF 0 < i /\ i < Len(name) - 1 THEN SubSeq(name, 1, i) ELSE name

\* Python truthiness of an optional string / optional number
TruthyStr(s) == s # <<>>
TruthyNum(x) == x # None /\ x[1] # 0

----------------------------------------------------------------------------
(* Inputs *)

\* time_range values; -1 is the "unset" sentinel
TimeVals == {-1, 0, 2, 5}

\* a list of length n: every pair of values, and one list of each other length
ListsOfLen(n) ==
    IF n = 2 THEN {<<a, b>> : a \in TimeVals, b \in TimeVals}
    ELSE {[i \in 1..n |-> 2]}

\* the time_range argument: its Python type and, for a sequence, its items
TimeRanges ==
    {[kind |-> "None", items |-> <<>>],
     [kind |-> "float", items |-> <<>>],
     [kind |-> "str", items |-> <<>>],
     [kind |-> "tuple", items |-> <<2, 5>>],
     [kind |-> "ndarray", items |-> <<2, 5>>]}
    \cup {[kind |-> "list", items |-> l] :
            l \in UNION {ListsOfLen(n) : n \in 0..MaxRangeLen}}

\* cls.__name__ of the class the tool is run from
ClassNames == {"StaticOptimization", "MuscleAnalysis", "JointReaction", "AnalyzeTool"}

\* trial paths: two names in one directory, and one of the names in another
Trials ==
    {[dir |-> "a", name |-> n_wu_walk01_mot],
     [dir |-> "a", name |-> n_ta_walk01_mot],
     [dir |-> "b", name |-> n_wu_walk01_mot]}

\* batches of distinct trial paths
Batches ==
    {b \in UNION {[1..n -> Trials] : n \in 1..MaxTrials} :
        \A i, j \in DOMAIN b : i # j => b[i] # b[j]}

\* first and last recorded time of a trial's motion file
Motion(trial) ==
    IF trial.dir = "a" THEN [first |-> 1, last |-> 9] ELSE [first |-> 3, last |-> 7]

\* size in bytes of a result file the engine writes
Sizes == {500, 5000}

\* files in the output directory before the batch
InitialDir ==
    (n_run01_so_sto :> 5000) @@ (n_walk01_so_sto :> 5000) @@ (n_log_sto :> 500)

Args ==
    [cls : ClassNames,
     time_range : TimeRanges,
     prefix : {None, s_wu},
     xml_forces : BOOLEAN,
     model_is_path : BOOLEAN,
     mot_files : Batches,
     remove_empty_files : BOOLEAN,
     contains : {None, s_walk, s_sto},
     multi : BOOLEAN]

----------------------------------------------------------------------------
(* Helpers of run_analyze_tool *)

Put(f, k, v) == [x \in DOMAIN f \cup {k} |-> IF x = k THEN v ELSE f[x]]
Drop(f, K) == [x \in DOMAIN f \ K |-> f[x]]

\* (mutation) the prefix test with receiver and argument swapped
SkippedSwapped(a, trial) ==
    TruthyStr(a.prefix) /\ ~StartsWith(a.prefix, Stem(trial.name))

\* the prefix test that skips a trial
Skipped(a, trial) ==
    TruthyStr(a.prefix) /\ ~StartsWith(Stem(trial.name), a.prefix)

\* effective start / end time
FirstTime(st, trial) ==
    IF TruthyNum(st) /\ st[1] # -1 THEN st[1] ELSE Motion(trial).first
LastTime(et, trial) ==
    IF TruthyNum(et) /\ et[1] # -1 THEN et[1] ELSE Motion(trial).last

\* name of the temporary external-loads file, relative to the working directory
TempXml(trial) == Stem(trial.name) \o sfx_temp_xml

\* the dispatch on the class name
KnownClass(cls) == cls \in {"StaticOptimization", "MuscleAnalysis", "JointReaction"}

\* result file of the engine run, named after the tool's name (trial.stem)
ResultFile(trial) == Stem(trial.name) \o sfx_sto

threshold == 1000

\* _remove_empty_files on a directory
RemoveEmptyFiles(dir) ==
    Drop(dir, {f \in DOMAIN dir : dir[f] < threshold})

\* (mutation) the substring test on the whole file name
SubsetOutputByName(dir, contains) ==
    Drop(dir, {f \in DOMAIN dir : ~Contains(contains, f)})

\* _subset_output on a directory
SubsetOutput(dir, contains) ==
    Drop(dir, {f \in DOMAIN dir : ~Contains(contains, Stem(f))})

\* list.remove of the first occurrence
RemoveFirst(list, x) ==
    IF \E i \in DOMAIN list : list[i] = x
    THEN LET k == CHOOSE i \in DOMAIN list :
                    list[i] = x /\ \A j \in DOMAIN list : list[j] = x => i <= j
         IN SubSeq(list, 1, k - 1) \o SubSeq(list, k + 1, Len(list))
    ELSE list

Calls(i, names) == [k \in DOMAIN names |-> <<i, names[k]>>]

----------------------------------------------------------------------------
(* State after the caller chose the arguments, before __init__ runs *)

\* analyses the pre-loaded model holds before the tool touches it
InitialAnalyses == <<[cls |-> "Kinematics", trial |-> 0]>>

NoTimes == <<>>
Idle(a) == [i \in DOMAIN a.mot_files |-> "idle"]
NoParse == [children |-> <<>>, status |-> "unparsed", out |-> <<>>]
NoStep == [op |-> "none", trial |-> 0, subset |-> FALSE, before |-> <<>>]

Fresh(a) ==
    /\ pc = "new"
    /\ raised = "none"
    /\ start_time = None
    /\ end_time = None
    /\ task = Idle(a)
    /\ log = <<>>
    /\ eff = [i \in DOMAIN a.mot_files |-> NoTimes]
    /\ visits = [i \in DOMAIN a.mot_files |-> [called |-> 0, processed |-> 0]]

InitWith(A, Dirs) ==
    /\ args \in A
    /\ Fresh(args)
    /\ cwd = <<>>
    /\ analyses = InitialAnalyses
    /\ outdir \in Dirs
    /\ ncalls = 1
    /\ last = NoStep
    /\ parse = NoParse

\* the default batch: sequential, no post-processing
Init ==
    InitWith({a \in Args : ~a.multi /\ ~a.remove_empty_files /\ a.contains = None},
             {InitialDir})

----------------------------------------------------------------------------
(* __init__ *)

Construct ==
    /\ pc = "new"
    /\ LET tr == args.time_range IN
       IF tr.kind \in {"list", "ndarray"}
       THEN IF Len(tr.items) >= 2
            THEN /\ start_time' = Some(tr.items[1])
                 /\ end_time' = Some(tr.items[2])
                 /\ pc' = "loop"
                 /\ raised' = "none"
            ELSE \* time_range[0] or time_range[1] is out of range
                 /\ start_time' = IF Len(tr.items) = 1 THEN Some(tr.items[1]) ELSE None
                 /\ end_time' = None
                 /\ pc' = "raised"
                 /\ raised' = "IndexError"
       ELSE IF tr.kind = "None"
       THEN /\ start_time' = None
            /\ end_time' = None
            /\ pc' = "loop"
            /\ raised' = "none"
       ELSE /\ UNCHANGED <<start_time, end_time>>
            /\ pc' = "raised"
            /\ raised' = "RuntimeError"
    /\ last' = [NoStep EXCEPT !.op = "construct"]
    /\ UNCHANGED <<parse, args, task, log, eff, visits, cwd, analyses, outdir, ncalls>>

----------------------------------------------------------------------------
(* main_loop: which trial may enter run_analyze_tool *)

Exceptions == {"ValueError", "EngineError", "FileNotFoundError"}
Raised(i) == task[i] \in Exceptions
Finished(i) == task[i] = "end" \/ Raised(i)

MayEnter(i) ==
    /\ pc = "loop"
    /\ task[i] = "idle"
    /\ args.multi \/ \A j \in DOMAIN task : j < i => task[j] = "end"

----------------------------------------------------------------------------
(* run_analyze_tool, up to the engine run *)

\* engine calls before the dispatch on the class name
CallsBeforeDispatch(a) ==
    (IF a.model_is_path THEN <<"Model">> ELSE <<>>)
    \o <<"initSystem", "Storage">>
    \o (IF a.xml_forces THEN <<"ExternalLoads", "printToXML">> ELSE <<>>)

\* The template xml_input is taken to be well formed and to hold the fields
\* the analysis kind reads, so that parse_analyze_set_xml and the params[...]
\* lookups of lines 184-235 do not raise here; the extractor is modelled on
\* its own below.
Enter(i) ==
    /\ MayEnter(i)
    /\ LET trial == args.mot_files[i]
           first_time == FirstTime(start_time, trial)
           last_time == LastTime(end_time, trial)
       IN
       IF Skipped(args, trial)
       THEN /\ task' = [task EXCEPT ![i] = "end"]
            /\ visits' = [visits EXCEPT ![i].called = @ + 1]
            /\ last' = [NoStep EXCEPT !.op = "skip", !.trial = i]
            /\ UNCHANGED <<log, eff, cwd, analyses>>
       ELSE /\ visits' = [visits EXCEPT ![i].called = @ + 1, ![i].processed = @ + 1]
            /\ cwd' = IF args.xml_forces THEN Put(cwd, TempXml(trial), i) ELSE cwd
            /\ IF KnownClass(args.cls)
               THEN /\ log' = log \o Calls(i, CallsBeforeDispatch(args)
                                   \o <<"Analysis", "addAnalysis", "AnalyzeTool">>)
                    /\ eff' = [eff EXCEPT ![i] =
                                 [a_start |-> first_time, a_end |-> last_time,
                                  t_initial |-> first_time, t_final |-> last_time,
                                  loads |-> 0, size |-> 0]]
                    /\ analyses' = IF args.model_is_path THEN analyses
                                   ELSE Append(analyses, [cls |-> args.cls, trial |-> i])
                    /\ task' = [task EXCEPT ![i] = "attached"]
                    /\ last' = [NoStep EXCEPT !.op = "enter", !.trial = i]
               ELSE \* raise ValueError
                    /\ log' = log \o Calls(i, CallsBeforeDispatch(args))
                    /\ task' = [task EXCEPT ![i] = "ValueError"]
                    /\ last' = [NoStep EXCEPT !.op = "enter", !.trial = i]
                    /\ UNCHANGED <<eff, analyses>>
    /\ UNCHANGED <<parse, args, pc, raised, start_time, end_time, outdir, ncalls>>

----------------------------------------------------------------------------
(* run_analyze_tool: the engine run *)

\* analyze_tool.run() starts: it reads the external loads file named by
\* setExternalLoadsFileName and opens the result file, or raises
Run(i) ==
    /\ pc = "loop"
    /\ task[i] = "attached"
    /\ LET trial == args.mot_files[i]
           temp == TempXml(trial)
       IN \E ok \in BOOLEAN :
            IF ok /\ (args.xml_forces => temp \in DOMAIN cwd)
            THEN /\ log' = Append(log, <<i, "run">>)
                 /\ eff' = [eff EXCEPT ![i].loads =
                              IF args.xml_forces THEN cwd[temp] ELSE 0]
                 /\ outdir' = Put(outdir, ResultFile(trial), 0)
                 /\ task' = [task EXCEPT ![i] = "writing"]
            ELSE /\ log' = Append(log, <<i, "run">>)
                 /\ task' = [task EXCEPT ![i] = "EngineError"]
                 /\ UNCHANGED <<eff, outdir>>
    /\ last' = [NoStep EXCEPT !.op = "run", !.trial = i]
    /\ UNCHANGED <<parse, args, pc, raised, start_time, end_time, visits, cwd,
                   analyses, ncalls>>

\* analyze_tool.run() returns: the result file has its final size, unless
\* its directory entry was unlinked while the engine was writing it (the
\* engine then wrote to a file that has no name any more)
Finish(i) ==
    /\ pc = "loop"
    /\ task[i] = "writing"
    /\ LET f == ResultFile(args.mot_files[i])
       IN \E s \in Sizes :
            /\ outdir' = IF f \in DOMAIN outdir THEN Put(outdir, f, s) ELSE outdir
            /\ eff' = [eff EXCEPT ![i].size = s]
    /\ task' = [task EXCEPT ![i] = "ran"]
    /\ last' = [NoStep EXCEPT !.op = "finish", !.trial = i]
    /\ UNCHANGED <<parse, args, pc, raised, start_time, end_time, log, visits, cwd,
                   analyses, ncalls>>

----------------------------------------------------------------------------
(* run_analyze_tool, after the engine run *)

\* model.removeAnalysis(analysis) and temp_xml.unlink()
Cleanup(i) ==
    /\ pc = "loop"
    /\ task[i] = "ran"
    /\ LET trial == args.mot_files[i]
           temp == TempXml(trial)
       IN /\ analyses' = IF args.model_is_path THEN analyses
                         ELSE RemoveFirst(analyses, [cls |-> args.cls, trial |-> i])
          /\ log' = Append(log, <<i, "removeAnalysis">>)
          /\ IF ~args.xml_forces
             THEN /\ task' = [task EXCEPT ![i] = "cleaned"]
                  /\ UNCHANGED cwd
             ELSE IF temp \in DOMAIN cwd
             THEN /\ cwd' = Drop(cwd, {temp})
                  /\ task' = [task EXCEPT ![i] = "cleaned"]
             ELSE /\ task' = [task EXCEPT ![i] = "FileNotFoundError"]
                  /\ UNCHANGED cwd
    /\ last' = [NoStep EXCEPT !.op = "cleanup", !.trial = i]
    /\ UNCHANGED <<parse, args, pc, raised, start_time, end_time, eff, visits, outdir,
                   ncalls>>

\* the optional _remove_empty_files and _subset_output on sto_output
PostProcess(a, dir) ==
    LET pruned == IF a.remove_empty_files THEN RemoveEmptyFiles(dir) ELSE dir
    IN IF TruthyStr(a.contains) THEN SubsetOutput(pruned, a.contains) ELSE pruned

PostProcessing(i) ==
    /\ pc = "loop"
    /\ task[i] = "cleaned"
    /\ outdir' = PostProcess(args, outdir)
    /\ task' = [task EXCEPT ![i] = "end"]
    /\ last' = [op |-> "post", trial |-> i, subset |-> TruthyStr(args.contains),
                before |-> IF args.remove_empty_files
                           THEN RemoveEmptyFiles(outdir) ELSE outdir]
    /\ UNCHANGED <<parse, args, pc, raised, start_time, end_time, log, eff, visits,
                   cwd, analyses, ncalls>>

----------------------------------------------------------------------------
(* main_loop returns or raises; the caller constructs the tool again *)

\* the loop stops at the first exception; pool.map waits for every task
Return ==
    /\ pc = "loop"
    /\ IF args.multi
       THEN \A i \in DOMAIN task : Finished(i)
       ELSE (\E i \in DOMAIN task : Raised(i)) \/ (\A i \in DOMAIN task : task[i] = "end")
    /\ IF \E i \in DOMAIN task : Raised(i)
       THEN /\ pc' = "raised"
            /\ \E i \in DOMAIN task : Raised(i) /\ raised' = task[i]
       ELSE /\ pc' = "done"
            /\ raised' = "none"
    /\ last' = [NoStep EXCEPT !.op = "return"]
    /\ UNCHANGED <<parse, args, start_time, end_time, task, log, eff, visits, cwd,
                   analyses, outdir, ncalls>>

\* the caller handles the outcome and runs the same batch again: the files
\* and the pre-loaded model outlive the tool object
CallAgain ==
    /\ pc \in {"done", "raised"}
    /\ ncalls < MaxCalls
    /\ pc' = "new"
    /\ raised' = "none"
    /\ start_time' = None
    /\ end_time' = None
    /\ task' = Idle(args)
    /\ log' = <<>>
    /\ eff' = [i \in DOMAIN args.mot_files |-> NoTimes]
    /\ visits' = [i \in DOMAIN args.mot_files |-> [called |-> 0, processed |-> 0]]
    /\ ncalls' = ncalls + 1
    /\ last' = NoStep
    /\ UNCHANGED <<parse, args, cwd, analyses, outdir>>

Next ==
    \/ Construct
    \/ \E i \in DOMAIN task : Enter(i)
    \/ \E i \in DOMAIN task : Run(i)
    \/ \E i \in DOMAIN task : Finish(i)
    \/ \E i \in DOMAIN task : Cleanup(i)
    \/ \E i \in DOMAIN task : PostProcessing(i)
    \/ Return
    \/ CallAgain

Spec == Init /\ [][Next]_vars

\* files an output directory may hold before a batch
DirFiles ==
    (n_run01_so_sto :> 5000) @@ (n_walk01_so_sto :> 5000) @@ (n_log_sto :> 500)
    @@ (n_sto_txt :> 5000)

\* sequential batches of one analysis kind with every combination of prefix,
\* external forces, model argument, pruning and substring filter, on an
\* output directory that holds all, some or none of DirFiles
InitPost ==
    InitWith({a \in Args : /\ ~a.multi
                           /\ a.time_range.kind = "None"
                           /\ a.cls = "MuscleAnalysis"},
             {Drop(DirFiles, K) :
                K \in {{}, {n_sto_txt}, {n_log_sto, n_run01_so_sto}, DOMAIN DirFiles}})

SpecPost == InitPost /\ [][Next]_vars

----------------------------------------------------------------------------
(* Claims on the sequential batch *)

TempOf(i) == TempXml(args.mot_files[i])
CallsOf(i) == {k \in DOMAIN log : log[k][1] = i}

\* C1: when the class name is none of the three analysis kinds, the
\* ValueError is raised before any engine call: no model loaded or
\* initialised, no motion storage read, no temp file written, no analysis
\* attached, no run started.
C1_ValueErrorBeforeAnyEngineCall ==
    \A i \in DOMAIN task :
        task[i] = "ValueError" =>
            /\ CallsOf(i) = {}
            /\ TempOf(i) \notin DOMAIN cwd
            /\ analyses = InitialAnalyses

\* the value the claim expects at one endpoint of a processed trial
ExpectedTime(tr, k, recorded) ==
    IF tr.kind # "None" /\ tr.items[k] # -1 THEN tr.items[k] ELSE recorded

\* C2: for every processed trial and each endpoint, the time given to the
\* analysis and to the tool is the time_range value when one was given and
\* is not -1 (also when it is 0), else the trial's first / last recorded time.
C2_EffectiveTimeIsTimeRange ==
    \A i \in DOMAIN eff :
        eff[i] # NoTimes =>
            LET m == Motion(args.mot_files[i])
                s == ExpectedTime(args.time_range, 1, m.first)
                e == ExpectedTime(args.time_range, 2, m.last)
            IN /\ eff[i].a_start = s /\ eff[i].t_initial = s
               /\ eff[i].a_end = e /\ eff[i].t_final = e

\* a two-element sequence or absent
TwoElementOrAbsent(tr) ==
    \/ tr.kind = "None"
    \/ tr.kind \in {"list", "ndarray", "tuple"} /\ Len(tr.items) = 2

\* C3: the constructor raises the time-range argument error, before any
\* trial is processed, if and only if time_range is neither None nor a
\* two-element sequence (list, array or tuple).
C3_RangeErrorIffBadShape ==
    last.op = "construct" =>
        /\ (pc = "raised" /\ raised = "RuntimeError") <=> ~TwoElementOrAbsent(args.time_range)
        /\ \A i \in DOMAIN visits : visits[i].called = 0
        /\ log = <<>>

\* what a trial that was skipped leaves behind: nothing
NoTraceOf(i) ==
    /\ visits[i].processed = 0
    /\ CallsOf(i) = {}
    /\ eff[i] = NoTimes
    /\ task[i] \in {"idle", "end"}

SkipStep ==
    \E i \in DOMAIN task :
        /\ task[i] = "idle" /\ task'[i] = "end"
        /\ Skipped(args, args.mot_files[i])

C4_Filter ==
    \A i \in DOMAIN task :
        LET stem == Stem(args.mot_files[i].name) IN
        /\ visits[i].called <= 1
        /\ visits[i].called = 1 =>
              IF args.prefix # None /\ ~StartsWith(stem, args.prefix)
              THEN NoTraceOf(i)
              ELSE visits[i].processed = 1
        /\ pc = "done" => visits[i].called = 1

\* C4: with a prefix, a trial is processed iff its stem starts with the
\* prefix; a skipped trial loads no model, runs no engine, writes no temp
\* file, leaves the output directory alone and is not post-processed; with
\* no prefix every trial of a completed batch is processed exactly once.
C4_PrefixFilter ==
    /\ []C4_Filter
    /\ [][SkipStep => UNCHANGED <<log, eff, cwd, analyses, outdir>>]_vars

\* a trial whose stem has the prefix was processed and one without it was
\* skipped, in one completed batch
C4_Witness ==
    /\ pc = "done"
    /\ args.prefix = s_wu
    /\ \E i, j \in DOMAIN task :
        /\ args.mot_files[i].name = n_wu_walk01_mot /\ visits[i].processed = 1
        /\ args.mot_files[j].name = n_ta_walk01_mot /\ visits[j].processed = 0
        /\ visits[j].called = 1

\* C5: once a trial's processing has ended, by success or by a raised
\* error, its <stem>_temp.xml no longer exists; after any batch no temp
\* file remains in the working directory.
\* (Stated for the three analysis kinds, where no configuration error is
\* involved.)
C5_TempFileDeletedAfterUse ==
    KnownClass(args.cls) =>
        /\ \A i \in DOMAIN task : Finished(i) => TempOf(i) \notin DOMAIN cwd
        /\ pc \in {"done", "raised"} => cwd = <<>>

\* C6: every analysis attached for a trial is detached when the trial's
\* processing ends, also when the engine run fails: between trials the
\* shared model's list is its initial list, and it never holds more than
\* one analysis of the tool.
C6_AnalysisDetached ==
    /\ (\A i \in DOMAIN task : task[i] = "idle" \/ Finished(i)) =>
            analyses = InitialAnalyses
    /\ Len(analyses) <= Len(InitialAnalyses) + 1

\* C9 as stated: after the substring filter a file exists iff the
\* substring occurs in its file name.
C9_RetainedIffNameContains ==
    last.op = "post" /\ last.subset =>
        \A f \in DOMAIN last.before :
            f \in DOMAIN outdir <=> Contains(args.contains, f)

\* C9, amended: after the substring filter a file exists iff the substring
\* occurs in its stem (the file name without its last suffix); with no
\* substring configured the step deletes nothing.
C9_RetainedIffStemContains ==
    last.op = "post" =>
        IF last.subset
        THEN /\ DOMAIN outdir \subseteq DOMAIN last.before
             /\ \A f \in DOMAIN last.before :
                    /\ f \in DOMAIN outdir <=> Contains(args.contains, Stem(f))
                    /\ f \in DOMAIN outdir => outdir[f] = last.before[f]
        ELSE outdir = last.before

\* the filter "walk" ran: run01_so.sto was deleted and walk01_so.sto kept
C9_Witness ==
    /\ last.op = "post" /\ last.subset
    /\ args.contains = s_walk
    /\ n_run01_so_sto \in DOMAIN last.before /\ n_run01_so_sto \notin DOMAIN outdir
    /\ n_walk01_so_sto \in DOMAIN outdir

----------------------------------------------------------------------------
(* Parallel mode: pool.map runs the trials in worker processes, each with *)
(* its own copy of the tool and a model loaded from its path; the working *)
(* directory and the output directory are the ones they share             *)

InitPar ==
    InitWith({a \in Args : /\ a.multi
                           /\ a.time_range.kind = "None"
                           /\ a.cls = "JointReaction"
                           /\ a.model_is_path
                           /\ a.contains \in {None, s_walk}},
             {InitialDir})

SpecPar == InitPar /\ [][Next]_vars

\* a worker between writing its temp file and unlinking it
UsesTemp(i) == args.xml_forces /\ task[i] \in {"attached", "writing", "ran"}

\* C7: in parallel mode the temp-file names of distinct trial paths cannot
\* collide, so no worker overwrites or deletes a temp file another worker
\* has written and not yet finished using: while a worker uses its temp
\* file the file exists and holds what that worker wrote.
C7_TempFilesDoNotCollide ==
    \A i \in DOMAIN task :
        UsesTemp(i) => TempOf(i) \in DOMAIN cwd /\ cwd[TempOf(i)] = i

DistinctStems ==
    \A i, j \in DOMAIN args.mot_files :
        i # j => Stem(args.mot_files[i].name) # Stem(args.mot_files[j].name)

\* the output directory after the trials from i on are processed one after
\* the other, with the result sizes the engine produced
RECURSIVE SequentialFrom(_, _)
SequentialFrom(i, dir) ==
    IF i > Len(args.mot_files) THEN dir
    ELSE LET trial == args.mot_files[i]
         IN SequentialFrom(i + 1,
                IF Skipped(args, trial) THEN dir
                ELSE PostProcess(args, Put(dir, ResultFile(trial), eff[i].size)))

\* C10: in parallel mode with post-processing, trials writing distinct
\* result files do not interfere through the output directory: no result
\* file is deleted while its worker is still writing it, and the files left
\* after the batch are those left by processing the trials sequentially.
C10_PostProcessingDoesNotInterfere ==
    DistinctStems =>
        /\ \A i \in DOMAIN task :
              task[i] = "writing" => ResultFile(args.mot_files[i]) \in DOMAIN outdir
        /\ (ncalls = 1 /\ pc = "done") => outdir = SequentialFrom(1, InitialDir)

----------------------------------------------------------------------------
(* parse_analyze_set_xml and _str_to_list *)

s_true == <<"t", "r", "u", "e">>
s_false == <<"f", "a", "l", "s", "e">>
s_3sp_a_b_c == <<" ", " ", " ", "a", " ", "b", " ", "c">>
Digits == {"0", "1", "2", "3", "4", "5", "6", "7", "8", "9"}
DigitValue(c) == CHOOSE n \in 0..9 : <<"0","1","2","3","4","5","6","7","8","9">>[n + 1] = c

\* the characters the texts of the model are made of
Alphabet == {" ", "a", "1", "."}

\* element texts: ElementTree gives None (here <<>>) for an element with no
\* text, never the empty string
Texts ==
    {<<>>, s_true, s_false, s_3sp_a_b_c}
    \cup UNION {[1..n -> Alphabet] : n \in 1..MaxTextLen}

Tags == {"on", "muscle_list"}

\* the children of the named node, in document order
Documents ==
    UNION {[1..n -> [tag : Tags, text : Texts]] : n \in 0..MaxChildren}

\* str.strip() of spaces, as float() does before it parses
RECURSIVE LStrip(_)
LStrip(t) == IF t # <<>> /\ Head(t) = " " THEN LStrip(Tail(t)) ELSE t
RECURSIVE RStrip(_)
RStrip(t) ==
    IF t # <<>> /\ t[Len(t)] = " " THEN RStrip(SubSeq(t, 1, Len(t) - 1)) ELSE t

\* isfloat: float(value) does not raise; for texts of digits, dots, spaces
\* and letters that is an unsigned decimal with at least one digit
IsFloat(t) ==
    LET u == RStrip(LStrip(t))
        dots == {i \in DOMAIN u : u[i] = "."}
    IN /\ u # <<>>
       /\ \A i \in DOMAIN u : u[i] \in Digits \cup {"."}
       /\ Cardinality(dots) <= 1
       /\ \E i \in DOMAIN u : u[i] \in Digits

\* the integer a string of digits denotes
RECURSIVE IntOf(_)
IntOf(d) ==
    IF d = <<>> THEN 0
    ELSE 10 * IntOf(SubSeq(d, 1, Len(d) - 1)) + DigitValue(d[Len(d)])

\* a decimal n / 10^k without trailing zeros in its fraction
RECURSIVE Normal(_, _)
Normal(n, k) == IF k > 0 /\ n % 10 = 0 THEN Normal(n \div 10, k - 1) ELSE <<n, k>>

\* float(text), as <<n, k>> for the number n / 10^k
FloatOf(t) ==
    LET u == RStrip(LStrip(t))
        digits == SelectSeq(u, LAMBDA c : c \in Digits)
        dot == RFindDot(u)
        k == IF dot < 0 THEN 0 ELSE Len(u) - dot - 1
    IN Normal(IntOf(digits), k)

\* str.split(" ")
RECURSIVE Split(_)
Split(t) ==
    IF \E i \in DOMAIN t : t[i] = " "
    THEN LET k == CHOOSE i \in DOMAIN t :
                    t[i] = " " /\ \A j \in DOMAIN t : t[j] = " " => i <= j
         IN <<SubSeq(t, 1, k - 1)>> \o Split(SubSeq(t, k + 1, Len(t)))
    ELSE <<t>>

\* _str_to_list: its while loop indexes one past the end of a string that
\* holds nothing but spaces
StrToListRaises(string) == \A i \in DOMAIN string : string[i] = " "
StrToList(string) == Split(LStrip(string))

\* the branch of parse_analyze_set_xml an element's text takes
TypedValue(text) ==
    IF text = s_true THEN [bool |-> TRUE]
    ELSE IF text = s_false THEN [bool |-> FALSE]
    ELSE IF text = <<>> THEN [none |-> TRUE]
    ELSE IF IsFloat(text) THEN [float |-> FloatOf(text)]
    ELSE [list |-> StrToList(text)]

ElementRaises(text) ==
    /\ text \notin {s_true, s_false, <<>>}
    /\ ~IsFloat(text)
    /\ StrToListRaises(text)

\* out after the loop over the children: a later element replaces the
\* value of an earlier one with the same tag
ParsedMap(children) ==
    LET tags == {children[k].tag : k \in DOMAIN children}
        lastOf(tag) == CHOOSE k \in DOMAIN children :
                          /\ children[k].tag = tag
                          /\ \A j \in DOMAIN children : children[j].tag = tag => j <= k
    IN [tag \in tags |-> TypedValue(children[lastOf(tag)].text)]

ParseAnalyzeSetXml ==
    /\ parse.status = "unparsed"
    /\ IF \E k \in DOMAIN parse.children : ElementRaises(parse.children[k].text)
       THEN parse' = [parse EXCEPT !.status = "IndexError"]
       ELSE parse' = [parse EXCEPT !.status = "returned",
                                   !.out = ParsedMap(parse.children)]
    /\ UNCHANGED <<args, pc, raised, start_time, end_time, task, log, eff,
                   visits, cwd, analyses, outdir, ncalls, last>>

\* the extractor on its own: one well-formed document, parsed once
InitParse ==
    /\ args = [cls |-> "MuscleAnalysis",
               time_range |-> [kind |-> "None", items |-> <<>>],
               prefix |-> None,
               xml_forces |-> FALSE,
               model_is_path |-> TRUE,
               mot_files |-> <<[dir |-> "a", name |-> n_wu_walk01_mot]>>,
               remove_empty_files |-> FALSE,
               contains |-> None,
               multi |-> FALSE]
    /\ Fresh(args)
    /\ cwd = <<>>
    /\ analyses = InitialAnalyses
    /\ outdir = InitialDir
    /\ ncalls = 1
    /\ last = NoStep
    /\ parse \in [children : Documents, status : {"unparsed"}, out : {<<>>}]

NextParse == ParseAnalyzeSetXml

SpecParse == InitParse /\ [][NextParse]_vars

\* the value the claim gives a text
ClaimedValue(text) ==
    IF text = s_true THEN [bool |-> TRUE]
    ELSE IF text = s_false THEN [bool |-> FALSE]
    ELSE IF text = <<>> THEN [none |-> TRUE]
    ELSE IF IsFloat(text) THEN [float |-> FloatOf(text)]
    ELSE [list |-> Split(LStrip(text))]

\* C8: parse_analyze_set_xml never crashes on a well-formed document and
\* gives every child's tag the typed value of its text: the boolean for
\* "true"/"false", the float for a number, the absent marker for None, and
\* for every other text, also one made only of spaces, the list of tokens
\* left after removing the leading spaces and splitting on single spaces;
\* no children give an empty mapping.
C8_ParseNeverCrashes ==
    parse.status # "unparsed" =>
        /\ parse.status = "returned"
        /\ DOMAIN parse.out = {parse.children[k].tag : k \in DOMAIN parse.children}
        /\ \A k \in DOMAIN parse.children :
              (\A j \in DOMAIN parse.children :
                    parse.children[j].tag = parse.children[k].tag => j <= k)
              => parse.out[parse.children[k].tag] = ClaimedValue(parse.children[k].text)

====
